---- MODULE Spec2Model ----
(***************************************************************************)
(* pngme: the chunk type (src/src/chunk_type.rs) and the chunk codec       *)
(* (src/src/chunk.rs).  Bytes are naturals 0..255.  A u32 is kept as two   *)
(* 16-bit limbs <<hi, lo>> (value hi * 65536 + lo), so that the whole      *)
(* 32-bit range, the wrap of `len + 4` included, is computed exactly.      *)
(***************************************************************************)
EXTENDS Naturals, Sequences, FiniteSets

VARIABLES
    input,       \* argument of the ChunkType constructors: an array or a text
    chunk_type,  \* Result<ChunkType> of the last ChunkType constructor call
    flags,       \* the property predicates read from chunk_type
    data,        \* payload handed to Chunk::new
    chunk,       \* the Chunk built by Chunk::new
    value,       \* the byte slice handed to Chunk::try_from
    edits,       \* how many times the caller altered value
    parsed,      \* Result<Chunk> of Chunk::try_from(value), or a panic
    out          \* as_bytes() and chunk_size() of the parsed Chunk

vars == <<input, chunk_type, flags, data, chunk, value, edits, parsed, out>>

----------------------------------------------------------------------------
(* Bounds of the model *)

\* longest text, in characters, handed to ChunkType::from_str
MaxTextLen == 5
\* longest payload handed to Chunk::new
MaxData == 2
\* most alterations the caller makes to a serialized chunk before parsing it
MaxEdits == 2

----------------------------------------------------------------------------
(* u8 and u32 arithmetic *)

Limb == 256 * 256

RECURSIVE Xor(_, _)
\* bitwise exclusive or of two naturals
Xor(a, b) ==
    IF a = 0 THEN b
    ELSE IF b = 0 THEN a
    ELSE ((a + b) % 2) + 2 * Xor(a \div 2, b \div 2)

\* u32::from_be_bytes
from_be_bytes(b) == <<b[1] * 256 + b[2], b[3] * 256 + b[4]>>

\* a mutant: the least significant byte first
to_le_bytes(u) == <<u[2] % 256, u[2] \div 256, u[1] % 256, u[1] \div 256>>

\* u32::to_be_bytes
to_be_bytes(u) == <<u[1] \div 256, u[1] % 256, u[2] \div 256, u[2] % 256>>

\* `n as u32` of a usize n: the low 32 bits
as_u32(n) == <<(n \div Limb) % Limb, n % Limb>>

\* `u as usize` of a u32 whose value is known to fit TLC's integers
as_usize(u) == u[1] * Limb + u[2]

\* a usize n as limbs, without truncation: hi exceeds 65535 when n >= 2^32
usize_limbs(n) == <<n \div Limb, n % Limb>>

\* u <= v on limb pairs
LimbsLe(u, v) == u[1] < v[1] \/ (u[1] = v[1] /\ u[2] <= v[2])

\* does u + k leave the u32 range (k < 65536)
U32AddOverflows(u, k) == u[1] + ((u[2] + k) \div Limb) >= Limb

\* u + k modulo 2^32 (k < 65536)
U32WrappingAdd(u, k) ==
    <<(u[1] + ((u[2] + k) \div Limb)) % Limb, (u[2] + k) % Limb>>

RECURSIVE Drop(_, _)
\* the slice s[n..]
Drop(s, n) == IF n = 0 THEN s ELSE Drop(Tail(s), n - 1)

\* the slice s[..n]
Take(s, n) == SubSeq(s, 1, n)

\* slice::split_at(mid), defined for mid <= len
split_at(s, mid) == <<Take(s, mid), Drop(s, mid)>>

----------------------------------------------------------------------------
(* ChunkType, src/src/chunk_type.rs *)

NoType == [kind |-> "None", bytes |-> <<>>, err |-> ""]
TypeOk(b) == [kind |-> "Ok", bytes |-> b, err |-> ""]
TypeErr(msg) == [kind |-> "Err", bytes |-> <<>>, err |-> msg]

is_ascii_lowercase(b) == b >= 97 /\ b <= 122
is_ascii_uppercase(b) == b >= 65 /\ b <= 90

\* a mutant: the upper bound of the lowercase range dropped
ChunkType_try_from_loose(b) ==
    IF Cardinality({i \in 1..4 : b[i] >= 97 \/ is_ascii_uppercase(b[i])}) = 4
    THEN TypeOk(b)
    ELSE TypeErr("Invalid Chunk Type")

\* a mutant: digits accepted as well
ChunkType_try_from_alnum(b) ==
    IF Cardinality({i \in 1..4 : is_ascii_lowercase(b[i]) \/ is_ascii_uppercase(b[i])
                                    \/ (b[i] >= 48 /\ b[i] <= 57)}) = 4
    THEN TypeOk(b)
    ELSE TypeErr("Invalid Chunk Type")

\* impl TryFrom<[u8; 4]> for ChunkType
ChunkType_try_from(b) ==
    IF Cardinality({i \in 1..4 : is_ascii_lowercase(b[i]) \/ is_ascii_uppercase(b[i])}) = 4
    THEN TypeOk(b)
    ELSE TypeErr("Invalid Chunk Type")

RECURSIVE str_as_bytes(_)
\* str::as_bytes: a text is a sequence of characters, each its UTF-8 bytes
str_as_bytes(s) == IF s = <<>> THEN <<>> ELSE Head(s) \o str_as_bytes(Tail(s))

\* impl FromStr for ChunkType
ChunkType_from_str(s) ==
    LET b == str_as_bytes(s)
    IN  IF Len(b) # 4
        THEN TypeErr("could not convert slice to array")
        ELSE ChunkType_try_from(b)

\* ChunkType::bytes
bytes(t) == t.bytes

\* ChunkType::is_upper; pos counts from 0
is_upper(t, pos) == t.bytes[pos + 1] <= 90

is_critical(t) == is_upper(t, 0)
is_public(t) == is_upper(t, 1)
is_reserved_bit_valid(t) == is_upper(t, 2)
is_safe_to_copy(t) == ~is_upper(t, 3)
is_valid(t) == is_reserved_bit_valid(t)

NoFlags == [read |-> FALSE, valid |-> FALSE, critical |-> FALSE, public |-> FALSE,
            reserved |-> FALSE, safe |-> FALSE]

----------------------------------------------------------------------------
(* Chunk, src/src/chunk.rs *)

\* crc::CRC_32_ISO_HDLC: reflected polynomial 0xEDB88320, init and xorout 0xFFFFFFFF
PolyHi == 60856
PolyLo == 33568
AllOnes == 65535

\* one bit of the reflected CRC register
CrcShift(c) ==
    LET sh == <<c[1] \div 2, (c[2] \div 2) + (c[1] % 2) * 32768>>
    IN  IF c[2] % 2 = 1 THEN <<Xor(sh[1], PolyHi), Xor(sh[2], PolyLo)>> ELSE sh

\* the byte-wise lookup table of the crc crate: eight bits of the register at once
CrcTable ==
    [n \in 0..255 |->
        CrcShift(CrcShift(CrcShift(CrcShift(
        CrcShift(CrcShift(CrcShift(CrcShift(<<0, n>>))))))))]

\* one input byte through the CRC register: (crc >> 8) ^ table[(crc ^ b) & 0xFF]
CrcByte(c, b) ==
    LET t == CrcTable[Xor(c[2] % 256, b)]
    IN  <<Xor(c[1] \div 256, t[1]), Xor((c[1] % 256) * 256 + (c[2] \div 256), t[2])>>

RECURSIVE digest_update(_, _)
\* Digest::update
digest_update(c, s) ==
    IF s = <<>> THEN c
    ELSE LET next == CrcByte(c, Head(s))
         IN  \* the register is computed before the rest of the input is read
             IF next[1] >= 0 THEN digest_update(next, Tail(s)) ELSE next

\* a mutant: the checksum covers the payload only
calc_crc_data_only(type_bytes, d) ==
    LET c == digest_update(<<AllOnes, AllOnes>>, d)
    IN  <<AllOnes - c[1], AllOnes - c[2]>>

\* Chunk::calc_crc
calc_crc(type_bytes, d) ==
    LET c == digest_update(digest_update(<<AllOnes, AllOnes>>, type_bytes), d)
    IN  <<AllOnes - c[1], AllOnes - c[2]>>

NoChunk == [kind |-> "None", chunk_type |-> <<>>, data |-> <<>>, crc |-> <<0, 0>>, err |-> ""]
ChunkOk(t, d, c) == [kind |-> "Ok", chunk_type |-> t, data |-> d, crc |-> c, err |-> ""]
ChunkErr(msg) == [kind |-> "Err", chunk_type |-> <<>>, data |-> <<>>, crc |-> <<0, 0>>, err |-> msg]
ChunkPanic(msg) == [kind |-> "Panic", chunk_type |-> <<>>, data |-> <<>>, crc |-> <<0, 0>>, err |-> msg]

\* Chunk::new
Chunk_new(t, d) == ChunkOk(bytes(t), d, calc_crc(bytes(t), d))

\* Chunk::length
length(c) == as_u32(Len(c.data))

\* a mutant: the checksum written before the payload
as_bytes_crc_first(c) ==
    to_be_bytes(length(c)) \o c.chunk_type \o to_be_bytes(c.crc) \o c.data

\* Chunk::as_bytes
as_bytes(c) ==
    to_be_bytes(length(c)) \o c.chunk_type \o c.data \o to_be_bytes(c.crc)

\* a mutant: the checksum left out of the size
chunk_size_no_crc(c) == as_usize(length(c)) + 8

\* Chunk::chunk_size
chunk_size(c) == as_usize(length(c)) + 12

\* a mutant: a slice of exactly 12 bytes refused
TooSmall_inclusive(v) == Len(v) <= 12

\* the negation of `value.len() >= 12`
TooSmall(v) == Len(v) < 12

\* a mutant: the slice must end with the checksum
LengthFits_exact(len, rest) == U32WrappingAdd(len, 4) = usize_limbs(Len(rest))

\* `rest.len() >= (len + 4) as usize`, once len + 4 has been computed
LengthFits(len, rest) == LimbsLe(U32WrappingAdd(len, 4), usize_limbs(Len(rest)))

\* the part of Chunk::try_from after the length check: the two splits and the CRC check
TryFromBody(len, t, rest) ==
    IF ~LimbsLe(len, usize_limbs(Len(rest)))
    THEN ChunkPanic("mid > len")
    ELSE LET s == split_at(rest, as_usize(len))
             d == s[1]
         IN  IF Len(s[2]) < 4
             THEN ChunkPanic("mid > len")
             ELSE LET crc == from_be_bytes(split_at(s[2], 4)[1])
                  IN  IF crc # calc_crc(bytes(t), d)
                      THEN ChunkErr("CRC check failed")
                      ELSE ChunkOk(bytes(t), d, crc)

\* impl TryFrom<&[u8]> for Chunk; overflow_checks is the build's setting for `len + 4`
Chunk_try_from(v, overflow_checks) ==
    IF TooSmall(v)
    THEN ChunkErr("Chunk is too small")
    ELSE LET s1 == split_at(v, 4)
             len == from_be_bytes(s1[1])
             s2 == split_at(s1[2], 4)
             t == ChunkType_try_from(s2[1])
             rest == s2[2]
         IN  IF t.kind # "Ok"
             THEN ChunkErr(t.err)
             ELSE IF overflow_checks /\ U32AddOverflows(len, 4)
             THEN ChunkPanic("attempt to add with overflow")
             ELSE IF ~LengthFits(len, rest)
             THEN ChunkErr("Data length is invalid")
             ELSE TryFromBody(len, t, rest)

NoOut == [read |-> FALSE, bytes |-> <<>>, size |-> 0]

----------------------------------------------------------------------------
(* Inputs *)

RECURSIVE SeqsUpTo(_, _)
\* the sequences over S of length at most n
SeqsUpTo(S, n) ==
    IF n = 0 THEN {<<>>}
    ELSE LET shorter == SeqsUpTo(S, n - 1)
         IN  shorter \cup {Append(s, x) : s \in shorter, x \in S}

\* bytes around the edges of the two letter ranges, and the extremes of u8
ArrayBytes == {0, 49, 64, 65, 90, 91, 96, 97, 122, 123, 255}
\* the characters "1", "A", "[", "z" and the two-byte "e with acute"
TextChars == {<<49>>, <<65>>, <<91>>, <<122>>, <<195, 169>>}
\* "RuSt" and "Ru1t"
TagSamples == {<<82, 117, 83, 116>>, <<82, 117, 49, 116>>}
PayloadBytes == {0, 255}
\* declared lengths 0, 1, 65536, 2^32 - 5, 2^32 - 4 and 2^32 - 1
LenSamples == {<<0, 0, 0, 0>>, <<0, 0, 0, 1>>, <<0, 1, 0, 0>>,
               <<255, 255, 255, 251>>, <<255, 255, 255, 252>>, <<255, 255, 255, 255>>}

\* "This is where your secret message will be!"
TestMessage ==
    <<84, 104, 105, 115, 32, 105, 115, 32, 119, 104, 101, 114, 101, 32,
      121, 111, 117, 114, 32, 115, 101, 99, 114, 101, 116, 32,
      109, 101, 115, 115, 97, 103, 101, 32, 119, 105, 108, 108, 32, 98, 101, 33>>
\* 2882656334 = 0xABD1D84E and 2882656333 = 0xABD1D84D
TestCrcs == {<<43985, 55374>>, <<43985, 55373>>}
\* chunk_data of the tests of chunk.rs
TestChunkData(crc) ==
    to_be_bytes(as_u32(42)) \o <<82, 117, 83, 116>> \o TestMessage \o to_be_bytes(crc)

----------------------------------------------------------------------------
(* The state machine: each action is one call of the library, or one step  *)
(* of the caller preparing the slice to parse.                             *)

Init ==
    /\ input = [kind |-> "none", b |-> <<>>]
    /\ chunk_type = NoType
    /\ flags = NoFlags
    /\ data = <<>>
    /\ chunk = NoChunk
    /\ value = <<>>
    /\ edits = 0
    /\ parsed = NoChunk
    /\ out = NoOut

\* ChunkType::try_from(b) for an array b of S
TypeTryFrom(S) ==
    /\ input.kind = "none"
    /\ \E b \in S :
        /\ input' = [kind |-> "array", b |-> b]
        /\ chunk_type' = ChunkType_try_from(b)
    /\ UNCHANGED <<flags, data, chunk, value, edits, parsed, out>>

\* ChunkType::from_str(s)
TypeFromStr ==
    /\ input.kind = "none"
    /\ \E s \in SeqsUpTo(TextChars, MaxTextLen) :
        /\ input' = [kind |-> "str", b |-> s]
        /\ chunk_type' = ChunkType_from_str(s)
    /\ UNCHANGED <<flags, data, chunk, value, edits, parsed, out>>

\* the five property predicates of a ChunkType
ReadFlags ==
    /\ chunk_type.kind = "Ok"
    /\ ~flags.read
    /\ flags' = [read |-> TRUE,
                 valid |-> is_valid(chunk_type),
                 critical |-> is_critical(chunk_type),
                 public |-> is_public(chunk_type),
                 reserved |-> is_reserved_bit_valid(chunk_type),
                 safe |-> is_safe_to_copy(chunk_type)]
    /\ UNCHANGED <<input, chunk_type, data, chunk, value, edits, parsed, out>>

\* Chunk::new(chunk_type, d)
ChunkNew ==
    /\ chunk_type.kind = "Ok"
    /\ chunk.kind = "None"
    /\ value = <<>>
    /\ \E d \in SeqsUpTo(PayloadBytes, MaxData) :
        /\ data' = d
        /\ chunk' = Chunk_new(chunk_type, d)
    /\ UNCHANGED <<input, chunk_type, flags, value, edits, parsed, out>>

\* chunk.as_bytes(), kept as the slice to parse
AsBytes ==
    /\ chunk.kind = "Ok"
    /\ value = <<>>
    /\ edits = 0
    /\ parsed.kind = "None"
    /\ value' = as_bytes(chunk)
    /\ UNCHANGED <<input, chunk_type, flags, data, chunk, edits, parsed, out>>

\* the hand-built slices of test_valid_chunk_from_bytes and
\* test_invalid_chunk_from_bytes, parsed as they are
TestVector ==
    /\ input.kind = "none"
    /\ value = <<>>
    /\ edits = 0
    /\ parsed.kind = "None"
    /\ \E crc \in TestCrcs : value' = TestChunkData(crc)
    /\ edits' = MaxEdits
    /\ UNCHANGED <<input, chunk_type, flags, data, chunk, parsed, out>>

\* the caller may still alter the slice
CanEdit == parsed.kind = "None" /\ edits < MaxEdits

\* the caller keeps a proper prefix of the slice
Truncate ==
    /\ CanEdit
    /\ \E n \in 0..(Len(value) - 1) : value' = Take(value, n)
    /\ edits' = edits + 1
    /\ UNCHANGED <<input, chunk_type, flags, data, chunk, parsed, out>>

\* the caller appends a byte of a larger stream
AppendByte ==
    /\ CanEdit
    /\ \E b \in PayloadBytes : value' = Append(value, b)
    /\ edits' = edits + 1
    /\ UNCHANGED <<input, chunk_type, flags, data, chunk, parsed, out>>

\* the caller overwrites the length field
SetLength ==
    /\ CanEdit
    /\ Len(value) >= 4
    /\ \E l \in LenSamples : value' = l \o Drop(value, 4)
    /\ edits' = edits + 1
    /\ UNCHANGED <<input, chunk_type, flags, data, chunk, parsed, out>>

\* one byte after the length field is corrupted: its low bit flipped, or a digit
Poke ==
    /\ CanEdit
    /\ \E i \in 5..Len(value) : \E b \in {49, Xor(value[i], 1)} :
        value' = [value EXCEPT ![i] = b]
    /\ edits' = edits + 1
    /\ UNCHANGED <<input, chunk_type, flags, data, chunk, parsed, out>>

\* Chunk::try_from(value), in a build with or without overflow checks
TryFrom ==
    /\ parsed.kind = "None"
    /\ \E overflow_checks \in BOOLEAN : parsed' = Chunk_try_from(value, overflow_checks)
    /\ UNCHANGED <<input, chunk_type, flags, data, chunk, value, edits, out>>

\* as_bytes() and chunk_size() of the parsed chunk
Reserialize ==
    /\ parsed.kind = "Ok"
    /\ ~out.read
    /\ out' = [read |-> TRUE, bytes |-> as_bytes(parsed), size |-> chunk_size(parsed)]
    /\ UNCHANGED <<input, chunk_type, flags, data, chunk, value, edits, parsed>>

Next ==
    \/ TypeTryFrom(TagSamples)
    \/ ChunkNew
    \/ AsBytes
    \/ TestVector
    \/ Truncate
    \/ AppendByte
    \/ SetLength
    \/ Poke
    \/ TryFrom
    \/ Reserialize

Spec == Init /\ [][Next]_vars

NextType ==
    \/ TypeTryFrom(SeqsUpTo(ArrayBytes, 4) \ SeqsUpTo(ArrayBytes, 3))
    \/ TypeFromStr
    \/ ReadFlags

SpecType == Init /\ [][NextType]_vars

----------------------------------------------------------------------------
(* Properties.  The helpers below read a slice with plain arithmetic: they *)
(* do not use the codec's own operators.                                   *)

Letters == (65..90) \cup (97..122)
UpperLetters == 65..90
LowerLetters == 97..122

\* the slice has a tag field and it holds four letters
ValidTagAt(v) == Len(v) >= 8 /\ \A i \in 5..8 : v[i] \in Letters
\* the declared length is below 65536, and its value then
DeclaredSmall(v) == v[1] = 0 /\ v[2] = 0
Declared(v) == v[3] * 256 + v[4]
\* fewer than L + 4 bytes remain after the tag
Short(v) == ~DeclaredSmall(v) \/ Declared(v) + 4 > Len(v) - 8
\* long enough, a valid tag, and room for the payload and the checksum
WellFramed(v) == Len(v) >= 12 /\ ValidTagAt(v) /\ ~Short(v)
PayloadOf(v) == SubSeq(v, 9, 8 + Declared(v))
EmbeddedCrc(v) ==
    LET n == Declared(v)
    IN  <<v[n + 9] * 256 + v[n + 10], v[n + 11] * 256 + v[n + 12]>>
CrcDiffers(v) == EmbeddedCrc(v) # calc_crc(SubSeq(v, 5, 8), PayloadOf(v))

\* value is chunk.as_bytes(), unaltered
Unaltered == chunk.kind = "Ok" /\ edits = 0 /\ value # <<>>

\* b is length, tag, payload, checksum of the record r, big-endian, in that order
Layout(b, r) ==
    LET n == Len(r.data)
    IN  /\ Len(b) = n + 12
        /\ b[1] = 0 /\ b[2] = 0 /\ b[3] * 256 + b[4] = n
        /\ SubSeq(b, 5, 8) = r.chunk_type
        /\ SubSeq(b, 9, 8 + n) = r.data
        /\ <<b[n + 9] * 256 + b[n + 10], b[n + 11] * 256 + b[n + 12]>> = r.crc

\* C1: parsing the serialized form of Chunk::new(t, p) succeeds and yields the
\* tag bytes, the payload and the checksum of Chunk::new(t, p).
RoundTrip ==
    (Unaltered /\ parsed.kind # "None") =>
        /\ parsed.kind = "Ok"
        /\ parsed.chunk_type = chunk.chunk_type
        /\ parsed.data = chunk.data
        /\ parsed.crc = chunk.crc

RoundTripWitness ==
    Unaltered /\ parsed.kind = "Ok" /\ parsed.data = data /\ data # <<>>

\* C2 as stated: as_bytes() of the record parsed from b is b, byte for byte,
\* for every b that Chunk::try_from accepts.
SerializeInvertsParse == out.read => out.bytes = value

\* C2 as amended: as_bytes() of the record parsed from b is the first 12 + L
\* bytes of b, L the declared length; it is b when b has no further bytes.
SerializeIsFramedPrefix ==
    out.read =>
        /\ Len(out.bytes) = 12 + Len(parsed.data)
        /\ Len(out.bytes) <= Len(value)
        /\ out.bytes = SubSeq(value, 1, Len(out.bytes))
        /\ DeclaredSmall(value) /\ Declared(value) = Len(parsed.data)

SerializeIsFramedPrefixWitness ==
    out.read /\ Len(value) > Len(out.bytes) /\ parsed.data # <<>>

\* C3: the crc of every Chunk, built or parsed, is the CRC-32 (ISO-HDLC) of the
\* tag bytes followed by the payload (2882656334 for the tests' chunk), and a
\* well-framed slice with another checksum fails with "CRC check failed".
ChecksumIsCrc32 ==
    /\ chunk.kind = "Ok" => chunk.crc = calc_crc(chunk.chunk_type, chunk.data)
    /\ parsed.kind = "Ok" => parsed.crc = calc_crc(parsed.chunk_type, parsed.data)
    /\ (parsed.kind # "None" /\ WellFramed(value) /\ CrcDiffers(value)) =>
            parsed = ChunkErr("CRC check failed")
    /\ (parsed.kind # "None" /\ value = TestChunkData(<<43985, 55374>>)) =>
            parsed = ChunkOk(<<82, 117, 83, 116>>, TestMessage, <<43985, 55374>>)
    /\ (parsed.kind # "None" /\ value = TestChunkData(<<43985, 55373>>)) =>
            parsed = ChunkErr("CRC check failed")

ChecksumIsCrc32Witness ==
    /\ chunk.kind = "Ok"
    /\ edits > 0
    /\ WellFramed(value)
    /\ parsed = ChunkErr("CRC check failed")

\* C4: a slice of at least 12 bytes with a valid tag and fewer than L + 4 bytes
\* after the tag fails with "Data length is invalid", whatever L is in
\* 0..2^32-1: it is neither accepted nor does the call abort.
LengthErrorForEveryLength ==
    (parsed.kind # "None" /\ Len(value) >= 12 /\ ValidTagAt(value) /\ Short(value)) =>
        parsed = ChunkErr("Data length is invalid")

\* C5: a ChunkType is built exactly from 4 bytes that are all ASCII letters, from
\* an array or from a text, and bytes() returns those bytes.
TagConstruction ==
    /\ input.kind = "array" =>
        /\ chunk_type.kind \in {"Ok", "Err"}
        /\ chunk_type.kind = "Err" <=> \E i \in 1..4 : input.b[i] \notin Letters
        /\ chunk_type.kind = "Ok" => bytes(chunk_type) = input.b
    /\ input.kind = "str" =>
        LET b == str_as_bytes(input.b)
        IN  /\ chunk_type.kind \in {"Ok", "Err"}
            /\ chunk_type.kind = "Err" <=>
                    (Len(b) # 4 \/ \E i \in 1..Len(b) : b[i] \notin Letters)
            /\ chunk_type.kind = "Ok" => bytes(chunk_type) = b

TagConstructionWitness ==
    input.kind = "str" /\ chunk_type.kind = "Ok" /\ Len(input.b) = 4

\* C6: is_critical, is_public and is_reserved_bit_valid hold iff bytes 0, 1 and 2
\* are uppercase letters, is_safe_to_copy iff byte 3 is a lowercase letter, and
\* is_valid equals is_reserved_bit_valid.
FlagsFollowCase ==
    flags.read =>
        LET b == chunk_type.bytes
        IN  /\ flags.critical <=> b[1] \in UpperLetters
            /\ flags.public <=> b[2] \in UpperLetters
            /\ flags.reserved <=> b[3] \in UpperLetters
            /\ flags.safe <=> b[4] \in LowerLetters
            /\ flags.valid <=> flags.reserved

FlagsFollowCaseWitness ==
    flags.read /\ flags.critical /\ ~flags.public /\ flags.reserved /\ flags.safe

\* C7: a slice fails with "Chunk is too small" exactly when it is shorter than
\* 12 bytes, whatever it holds.
MinimumSize ==
    parsed.kind # "None" =>
        (Len(value) < 12 <=> parsed = ChunkErr("Chunk is too small"))

MinimumSizeWitness ==
    /\ Len(value) = 11
    /\ ValidTagAt(value)
    /\ chunk.kind = "Ok"
    /\ parsed = ChunkErr("Chunk is too small")

\* C8: when a prefix of the slice parses, the slice parses to the same record;
\* a parsed record is read from the first 8 + L + 4 bytes alone.
TrailingIgnored ==
    parsed.kind # "None" =>
        /\ parsed.kind = "Ok" =>
            /\ DeclaredSmall(value) /\ Declared(value) = Len(parsed.data)
            /\ Len(value) >= 12 + Len(parsed.data)
            /\ Layout(SubSeq(value, 1, 12 + Len(parsed.data)), parsed)
        /\ \A k \in 12..Len(value) :
            LET r == Chunk_try_from(Take(value, k), TRUE)
            IN  r.kind = "Ok" => parsed = r

TrailingIgnoredWitness ==
    /\ parsed.kind = "Ok"
    /\ Len(value) > 12 + Len(parsed.data)
    /\ Chunk_try_from(Take(value, 12 + Len(parsed.data)), TRUE).kind = "Ok"
    /\ ~out.read

\* C9: as_bytes() is the big-endian payload length, the tag, the payload and the
\* big-endian checksum, and its length is chunk_size(), which is length() + 12.
SerializedLayout ==
    /\ Unaltered => Layout(value, chunk)
    /\ out.read =>
        /\ Layout(out.bytes, parsed)
        /\ out.size = Len(out.bytes)
        /\ out.size = Len(parsed.data) + 12

SerializedLayoutWitness ==
    out.read /\ parsed.data # <<>> /\ Len(value) = Len(out.bytes)

\* C10: Chunk::try_from reports the first check that fails, in the order too
\* small, invalid tag, invalid data length, CRC check failed.
ChecksInOrder ==
    parsed.kind # "None" =>
        IF Len(value) < 12 THEN parsed = ChunkErr("Chunk is too small")
        ELSE IF ~ValidTagAt(value) THEN parsed = ChunkErr("Invalid Chunk Type")
        ELSE IF Short(value) THEN parsed = ChunkErr("Data length is invalid")
        ELSE IF CrcDiffers(value) THEN parsed = ChunkErr("CRC check failed")
        ELSE parsed.kind = "Ok"

====
